---- MODULE Spec2Model ----
(***************************************************************************)
(* Model of the USO Bollinger-band monitor:                                *)
(*   uso_bollinger_trading_bot.py  BollingerBandsStrategy,                 *)
(*                                 NotificationManager, USO_TradingBot     *)
(*   tradingboard.py               StreamlitTradingInterface               *)
(*                                                                         *)
(* Prices are fixed-point integers (1 unit = 0.001 currency units); the    *)
(* rolling mean, sample standard deviation and the bands are computed on   *)
(* them with floor division and an integer square root.  The multiplier    *)
(* std_dev is carried in tenths (5 = 0.5, 10 = 1.0).                       *)
(***************************************************************************)
EXTENDS Integers, Sequences, FiniteSets, TLC

(* ---------------------------- bounds ----------------------------------- *)
\* longest daily series the data provider serves
MaxBars == 3
\* largest rolling window the configuration may ask for
MaxPeriod == 2
\* number of clock readings (datetime.now()) in one behaviour
MaxClock == 2

(* ------------------------- value domains ------------------------------- *)
\* closing prices the provider may report
Closes == {1006, 4000, 6000}
\* Rolling windows a strategy may be built with.  The program's windows
\* (20 bars by default, 10..50 on the slider) are scaled down to 2..MaxPeriod
\* bars so that the provider's series stays short.
Periods == 2..MaxPeriod
\* Band multipliers in tenths.  In a window of n bars the last close lies at
\* most (n-1)/sqrt(n) sample deviations below the mean, so with the scaled
\* windows a close can fall below the lower band only for multipliers
\* 0.5 (n >= 2) and 1.0 (n >= 3); they stand for the program's 1.0..3.0.
StdDevs == {5, 10}
Channels == {"console", "email", "sound"}
\* channel enablement of the configurations the program writes: the default
\* file (email off) and the dashboard's file (email on)
DefaultConfig == {"console", "sound"}
ConfigFiles == {DefaultConfig, {"console", "email", "sound"}}

\* pandas' float NaN (result of a rolling window with too few observations)
NaN == -1000000
\* float infinities (non-zero numerator over a zero band width)
PosInf == 1000000
NegInf == -2000000
\* Python's None
None == [none |-> TRUE]

isna(x) == x = NaN
IsFinite(x) == x # NaN /\ x # PosInf /\ x # NegInf

(* ----------------------- float arithmetic ------------------------------ *)
FAdd(a, b) == IF isna(a) \/ isna(b) THEN NaN ELSE a + b
FSub(a, b) == IF isna(a) \/ isna(b) THEN NaN ELSE a - b
\* a * (k/10)
FScale(a, k) == IF isna(a) THEN NaN ELSE (a * k) \div 10
\* a division that gives 0 for a zero divisor
FDiv_zero_as_zero(a, b) ==
    IF isna(a) \/ isna(b) THEN NaN
    ELSE IF b = 0 THEN 0
    ELSE (a * 100) \div b
\* a / b in hundredths; x/0 is +-inf and 0/0 is NaN as in IEEE arithmetic
FDiv(a, b) ==
    IF isna(a) \/ isna(b) THEN NaN
    ELSE IF b = 0 THEN (IF a = 0 THEN NaN ELSE IF a > 0 THEN PosInf ELSE NegInf)
    ELSE (a * 100) \div b
\* comparisons with NaN are False
FGe(a, b) == ~isna(a) /\ ~isna(b) /\ a >= b
FLt(a, b) == ~isna(a) /\ ~isna(b) /\ a < b
FGt(a, b) == ~isna(a) /\ ~isna(b) /\ a > b

RECURSIVE SumSeq(_)
SumSeq(s) == IF s = <<>> THEN 0 ELSE Head(s) + SumSeq(Tail(s))

RECURSIVE SqSearch(_, _, _)
SqSearch(n, lo, hi) ==
    IF lo >= hi THEN lo
    ELSE LET mid == (lo + hi + 1) \div 2
         IN IF mid * mid <= n THEN SqSearch(n, mid, hi) ELSE SqSearch(n, lo, mid - 1)
\* floor of the square root
Isqrt(n) == SqSearch(n, 0, 8000)

\* '.2f' formatting: thousandths rounded to hundredths
Fmt2(x) == IF isna(x) THEN NaN ELSE (x + 5) \div 10

(* ------------------- BollingerBandsStrategy ---------------------------- *)
\* a rolling mean that needs one observation only (min_periods=1)
RollingMean_min_periods_1(closes, period, i) ==
    IF i < period THEN SumSeq(SubSeq(closes, 1, i)) \div i
    ELSE SumSeq(SubSeq(closes, i - period + 1, i)) \div period

\* data['Close'].rolling(window=period).mean() at row i
RollingMean(closes, period, i) ==
    IF i < period THEN NaN
    ELSE SumSeq(SubSeq(closes, i - period + 1, i)) \div period

\* data['Close'].rolling(window=period).std() at row i (divisor period-1)
RollingStd(closes, period, i) ==
    IF i < period \/ period < 2 THEN NaN
    ELSE LET w == SubSeq(closes, i - period + 1, i)
             m == SumSeq(w) \div period
             sq == [k \in 1..period |-> (w[k] - m) * (w[k] - m)]
         IN Isqrt(SumSeq(sq) \div (period - 1))

\* the row with the lower band one deviation below the mean whatever std_dev
BollingerRow_lower_unscaled(closes, period, std_dev, i) ==
    LET sma == RollingMean(closes, period, i)
        std == RollingStd(closes, period, i)
        up  == FAdd(sma, FScale(std, std_dev))
        lo  == FSub(sma, std)
    IN [Close |-> closes[i], SMA |-> sma, STD |-> std,
        Upper_Band |-> up, Lower_Band |-> lo,
        BB_Width |-> FSub(up, lo),
        Percent_B |-> FDiv(FSub(closes[i], lo), FSub(up, lo))]

\* one row of the frame calculate_bollinger_bands returns
BollingerRow(closes, period, std_dev, i) ==
    LET sma == RollingMean(closes, period, i)
        std == RollingStd(closes, period, i)
        up  == FAdd(sma, FScale(std, std_dev))
        lo  == FSub(sma, FScale(std, std_dev))
    IN [Close |-> closes[i], SMA |-> sma, STD |-> std,
        Upper_Band |-> up, Lower_Band |-> lo,
        BB_Width |-> FSub(up, lo),
        Percent_B |-> FDiv(FSub(closes[i], lo), FSub(up, lo))]

\* the frame with the indicator columns added, one row per bar
calculate_bollinger_bands(closes, period, std_dev) ==
    [i \in 1..Len(closes) |-> BollingerRow(closes, period, std_dev, i)]

TradingSignal(now, symbol, current) ==
    [timestamp |-> now, symbol |-> symbol, signal_type |-> "BUY",
     price |-> current.Close, upper_band |-> current.Upper_Band,
     middle_band |-> current.SMA, lower_band |-> current.Lower_Band,
     message |-> <<symbol, Fmt2(current.Close), Fmt2(current.Lower_Band)>>]

\* detect_buy_signal with the previous bar compared by > instead of >=
detect_buy_signal_strict(data, symbol, now) ==
    IF Len(data) < 2 THEN None
    ELSE LET current == data[Len(data)]
             previous == data[Len(data) - 1]
         IN IF \E row \in {current, previous} :
                  \/ isna(row.Close) \/ isna(row.Upper_Band)
                  \/ isna(row.SMA) \/ isna(row.Lower_Band)
            THEN None
            ELSE IF /\ FGt(previous.Close, previous.Lower_Band)
                    /\ FLt(current.Close, current.Lower_Band)
                 THEN TradingSignal(now, symbol, current)
                 ELSE None

\* detect_buy_signal that checks only the current row for NaN and asks that
\* the previous close be "not below" its band
detect_buy_signal_current_only(data, symbol, now) ==
    IF Len(data) < 2 THEN None
    ELSE LET current == data[Len(data)]
             previous == data[Len(data) - 1]
         IN IF \/ isna(current.Close) \/ isna(current.Upper_Band)
               \/ isna(current.SMA) \/ isna(current.Lower_Band)
            THEN None
            ELSE IF /\ ~FLt(previous.Close, previous.Lower_Band)
                    /\ FLt(current.Close, current.Lower_Band)
                 THEN TradingSignal(now, symbol, current)
                 ELSE None

\* detect_buy_signal that fills the signal from the previous row
detect_buy_signal_previous_fields(data, symbol, now) ==
    IF Len(data) < 2 THEN None
    ELSE LET current == data[Len(data)]
             previous == data[Len(data) - 1]
         IN IF \E row \in {current, previous} :
                  \/ isna(row.Close) \/ isna(row.Upper_Band)
                  \/ isna(row.SMA) \/ isna(row.Lower_Band)
            THEN None
            ELSE IF /\ FGe(previous.Close, previous.Lower_Band)
                    /\ FLt(current.Close, current.Lower_Band)
                 THEN TradingSignal(now, symbol, previous)
                 ELSE None

\* the signal detect_buy_signal returns (None when there is none)
detect_buy_signal(data, symbol, now) ==
    IF Len(data) < 2 THEN None
    ELSE LET current == data[Len(data)]
             previous == data[Len(data) - 1]
         IN IF \E row \in {current, previous} :
                  \/ isna(row.Close) \/ isna(row.Upper_Band)
                  \/ isna(row.SMA) \/ isna(row.Lower_Band)
            THEN None
            ELSE IF /\ FGe(previous.Close, previous.Lower_Band)
                    /\ FLt(current.Close, current.Lower_Band)
                 THEN TradingSignal(now, symbol, current)
                 ELSE None

\* the 'position' label of get_current_status
PositionOf(percent_b) ==
    IF FGt(percent_b, 100) THEN "above_upper"
    ELSE IF FGt(percent_b, 80) THEN "near_upper"
    ELSE IF FGt(percent_b, 20) THEN "middle"
    ELSE IF FGt(percent_b, 0) THEN "near_lower"
    ELSE "below_lower"

get_current_status(data, symbol, now) ==
    IF Len(data) = 0 THEN None
    ELSE LET current == data[Len(data)]
         IN [timestamp |-> now, symbol |-> symbol,
             current_price |-> current.Close,
             upper_band |-> current.Upper_Band,
             middle_band |-> current.SMA,
             lower_band |-> current.Lower_Band,
             percent_b |-> current.Percent_B,
             bb_width |-> current.BB_Width,
             position |-> PositionOf(current.Percent_B)]

\* The provider's "Time Series (Daily)" object for the bars of the market:
\* one entry per trading day, keyed by its date, the newest day first.
TimeSeriesDaily(series) ==
    [i \in 1..Len(series) |->
        [date |-> Len(series) + 1 - i, close |-> series[Len(series) + 1 - i]]]

\* seq[::-1]
Reverse(seq) == [i \in 1..Len(seq) |-> seq[Len(seq) + 1 - i]]

\* the frame of a list of rows: its index and its Close column
Frame(rows) ==
    [Close |-> [i \in DOMAIN rows |-> rows[i].close],
     Index |-> [i \in DOMAIN rows |-> rows[i].date]]

\* fetch_market_data without the data.empty test
fetch_market_data_no_empty_check(outcome, series) ==
    IF outcome # "ok" THEN None
    ELSE Frame(Reverse(TimeSeriesDaily(series)))

\* fetch_market_data keeping the provider's order
fetch_market_data_unreversed(outcome, series) ==
    IF outcome # "ok" THEN None
    ELSE IF TimeSeriesDaily(series) = <<>> THEN None
    ELSE Frame(TimeSeriesDaily(series))

\* What fetch_market_data returns for a provider outcome: a frame with the
\* daily closes, or None when the request or the decoding of the payload
\* raises ("error": network error, payload without the series) or when the
\* frame has no rows.
FetchOutcomes == {"ok", "error"}
fetch_market_data(outcome, series) ==
    IF outcome # "ok" THEN None
    ELSE LET data == Reverse(TimeSeriesDaily(series))
         IN IF data = <<>> THEN None
            ELSE Frame(data)

(* ------------------------- the signals export -------------------------- *)
\* the columns of the exported file, in the order of the dict's keys
Columns == <<"timestamp", "symbol", "signal_type", "price", "upper_band",
             "middle_band", "lower_band", "message">>

\* the text to_csv writes for one value
CsvText(value) == [text |-> value]

\* DataFrame(signals_data).to_csv(index=False): the header line and one line
\* per row; a frame without rows has no columns and gives one empty line
to_csv(signals_data) ==
    IF signals_data = <<>> THEN << <<>> >>
    ELSE <<Columns>> \o
         [i \in DOMAIN signals_data |->
            [k \in DOMAIN Columns |-> CsvText(signals_data[i][Columns[k]])]]

\* save_signals_to_csv with the newest signal written first
save_signals_to_csv_newest_first(history) ==
    LET signals_data ==
            [i \in DOMAIN history |->
                [c \in {Columns[k] : k \in DOMAIN Columns} |->
                    history[Len(history) + 1 - i][c]]]
    IN [file |-> to_csv(signals_data), signals_history |-> history]

\* save_signals_to_csv: the file written and signals_history afterwards
save_signals_to_csv(history) ==
    LET signals_data ==
            [i \in DOMAIN history |->
                [c \in {Columns[k] : k \in DOMAIN Columns} |-> history[i][c]]]
    IN [file |-> to_csv(signals_data), signals_history |-> history]

(* ----------------------- NotificationManager --------------------------- *)
\* One channel call.  enabled: channels switched on in the configuration;
\* faults: channels whose delivery raises in this dispatch.  The handler
\* catches the exception itself, so the call never raises.  The fault
\* "email_hang" is a mail relay that accepts the connection and never
\* answers: smtplib.SMTP is opened without a timeout, so the call blocks.
send_console_notification(signal, enabled, faults) ==
    IF "console" \notin enabled THEN [channel |-> "console", outcome |-> "skipped", raised |-> FALSE]
    ELSE IF "console" \in faults THEN [channel |-> "console", outcome |-> "failed", raised |-> FALSE]
    ELSE [channel |-> "console", outcome |-> "sent", raised |-> FALSE]

\* send_email_notification without its try/except
send_email_notification_unguarded(signal, enabled, faults) ==
    IF "email" \notin enabled THEN [channel |-> "email", outcome |-> "skipped", raised |-> FALSE]
    ELSE IF "email" \in faults THEN [channel |-> "email", outcome |-> "failed", raised |-> TRUE]
    ELSE [channel |-> "email", outcome |-> "sent", raised |-> FALSE]

send_email_notification(signal, enabled, faults) ==
    IF "email" \notin enabled THEN [channel |-> "email", outcome |-> "skipped", raised |-> FALSE]
    ELSE IF "email_hang" \in faults THEN [channel |-> "email", outcome |-> "blocked", raised |-> FALSE]
    ELSE IF "email" \in faults THEN [channel |-> "email", outcome |-> "failed", raised |-> FALSE]
    ELSE [channel |-> "email", outcome |-> "sent", raised |-> FALSE]

send_sound_notification(signal, enabled, faults) ==
    IF "sound" \notin enabled THEN [channel |-> "sound", outcome |-> "skipped", raised |-> FALSE]
    ELSE IF "sound" \in faults THEN [channel |-> "sound", outcome |-> "failed", raised |-> FALSE]
    ELSE [channel |-> "sound", outcome |-> "sent", raised |-> FALSE]

\* notify that calls the email channel a second time when it failed
notify_retry_email(signal, enabled, faults) ==
    LET c == send_console_notification(signal, enabled, faults)
        e == send_email_notification(signal, enabled, faults)
        s == send_sound_notification(signal, enabled, faults)
        calls == IF c.raised THEN <<c>>
                 ELSE IF e.raised \/ e.outcome = "blocked" THEN <<c, e>>
                 ELSE IF e.outcome = "failed" THEN <<c, e, e, s>>
                 ELSE <<c, e, s>>
    IN [signal |-> signal, calls |-> calls,
        raised |-> calls[Len(calls)].raised,
        blocked |-> calls[Len(calls)].outcome = "blocked",
        returned |-> None]

\* notify calls the three channels in order; an exception leaving a channel
\* call would leave notify at that point, and a call that blocks keeps it
\* there.  notify has no return statement.
notify(signal, enabled, faults) ==
    LET c == send_console_notification(signal, enabled, faults)
        e == send_email_notification(signal, enabled, faults)
        s == send_sound_notification(signal, enabled, faults)
        calls == IF c.raised THEN <<c>>
                 ELSE IF e.raised \/ e.outcome = "blocked" THEN <<c, e>>
                 ELSE <<c, e, s>>
    IN [signal |-> signal, calls |-> calls,
        raised |-> calls[Len(calls)].raised,
        blocked |-> calls[Len(calls)].outcome = "blocked",
        returned |-> None]

(* --------------------------- USO_TradingBot ---------------------------- *)
\* run_single_check whose detector puts the new signal first in the history
run_single_check_newest_first(fetched, period, std_dev, history, now, enabled, faults) ==
    IF fetched = None
    THEN [signals_history |-> history, dispatches |-> <<>>,
          logged |-> {"fetch_failed"}, data |-> <<>>, status |-> None,
          signal |-> None, computed |-> FALSE]
    ELSE LET data == calculate_bollinger_bands(fetched.Close, period, std_dev)
             status == get_current_status(data, "USO", now)
             signal == detect_buy_signal(data, "USO", now)
             n == notify(signal, enabled, faults)
         IN IF signal = None
            THEN [signals_history |-> history, dispatches |-> <<>>,
                  logged |-> {}, data |-> data, status |-> status,
                  signal |-> None, computed |-> TRUE]
            ELSE [signals_history |-> <<signal>> \o history,
                  dispatches |-> <<n>>,
                  logged |-> IF n.raised THEN {"signal", "check_failed"} ELSE {"signal"},
                  data |-> data, status |-> status,
                  signal |-> signal, computed |-> TRUE]

\* One run_single_check: fetched is what fetch_market_data returned.
\* Result: the strategy's signals_history afterwards, the dispatches made,
\* the messages logged and the locals of the cycle.
run_single_check(fetched, period, std_dev, history, now, enabled, faults) ==
    IF fetched = None
    THEN [signals_history |-> history, dispatches |-> <<>>,
          logged |-> {"fetch_failed"}, data |-> <<>>, status |-> None,
          signal |-> None, computed |-> FALSE]
    ELSE LET data == calculate_bollinger_bands(fetched.Close, period, std_dev)
             status == get_current_status(data, "USO", now)
             signal == detect_buy_signal(data, "USO", now)
             n == notify(signal, enabled, faults)
         IN IF signal = None
            THEN [signals_history |-> history, dispatches |-> <<>>,
                  logged |-> {}, data |-> data, status |-> status,
                  signal |-> None, computed |-> TRUE]
            ELSE [signals_history |-> Append(history, signal),
                  dispatches |-> <<n>>,
                  logged |-> IF n.raised THEN {"signal", "check_failed"} ELSE {"signal"},
                  data |-> data, status |-> status,
                  signal |-> signal, computed |-> TRUE]

(* ---------------------- StreamlitTradingInterface ---------------------- *)
\* USO_TradingBot(symbol, check_interval) as the dashboard builds it, with
\* the strategy parameters it then overwrites
NewBot(symbol, a_period, a_std_dev, a_check_interval) ==
    [symbol |-> symbol, check_interval |-> a_check_interval,
     is_running |-> FALSE, period |-> a_period, std_dev |-> a_std_dev,
     signals_history |-> <<>>]

\* the page's start_monitoring: the instance's bot, the session's bot_running
\* and last_update afterwards
Streamlit_start_monitoring(symbol, a_period, a_std_dev, a_check_interval, now) ==
    [bot |-> NewBot(symbol, a_period, a_std_dev, a_check_interval),
     bot_running |-> TRUE, last_update |-> now]

\* the page's stop_monitoring: acts only when this instance holds a bot
Streamlit_stop_monitoring(bot, running) ==
    IF bot # None
    THEN [bot |-> [bot EXCEPT !.is_running = FALSE], bot_running |-> FALSE]
    ELSE [bot |-> bot, bot_running |-> running]

\* fetch_and_display_data that drops a signal the session has recorded before
fetch_and_display_data_skip_recorded(fetched, a_period, a_std_dev, session_history, now) ==
    IF fetched = None
    THEN [result |-> None, signals_history |-> session_history]
    ELSE LET data == calculate_bollinger_bands(fetched.Close, a_period, a_std_dev)
             status == get_current_status(data, "USO", now)
             found == detect_buy_signal(data, "USO", now)
             signal == IF found # None /\ \E i \in DOMAIN session_history :
                                              session_history[i].price = found.price
                       THEN None ELSE found
         IN [result |-> [data |-> data, status |-> status, signal |-> signal],
             signals_history |-> IF signal = None THEN session_history
                                 ELSE Append(session_history, signal)]

\* fetch_and_display_data on a strategy built for this call: the value
\* returned and the session's signals_history afterwards
fetch_and_display_data(fetched, a_period, a_std_dev, session_history, now) ==
    IF fetched = None
    THEN [result |-> None, signals_history |-> session_history]
    ELSE LET data == calculate_bollinger_bands(fetched.Close, a_period, a_std_dev)
             status == get_current_status(data, "USO", now)
             signal == detect_buy_signal(data, "USO", now)
         IN [result |-> [data |-> data, status |-> status, signal |-> signal],
             signals_history |-> IF signal = None THEN session_history
                                 ELSE Append(session_history, signal)]

\* seconds one run_single_check may take (fetch, computation, dispatch)
Latencies == {0, 1}
\* no run_single_check has begun yet
NoTick == -1
\* interval passed by main(), and the slider's default
DefaultCheckInterval == 30

VARIABLES
    market,           \* the provider's daily closes, oldest first
    clock,            \* readings of datetime.now() so far
    enabled,          \* channels enabled in notification_config.json
    pc,               \* position of the bot process: idle, check, sleep, blocked, done
    is_running,       \* USO_TradingBot.is_running
    check_interval,   \* USO_TradingBot.check_interval
    period,           \* strategy.period
    std_dev,          \* strategy.std_dev (tenths)
    signals_history,  \* strategy.signals_history
    history_bars,     \* for each entry of signals_history, the bar it was detected on
    notifications,    \* the notify calls made so far, with the bar detected on
    last_check,       \* the locals and log of the most recent run_single_check
    csv_file,         \* the lines of the exported signals file (none before an export)
    wall,             \* seconds of wall time since the bot process started (where timed)
    tick_at,          \* wall time at which the latest run_single_check began
    handed,           \* what get_signals_history gave its latest caller (None before a call)
    bot_running,      \* st.session_state.bot_running
    session_history,  \* st.session_state.signals_history
    session_bars,     \* for each entry of session_history, the bar it was detected on
    last_update,      \* st.session_state.last_update
    app_bot,          \* self.bot of the page instance of the latest script run
    ui,               \* the sidebar sliders: period and std_dev
    last_result,      \* what the latest script run got from fetch_and_display_data
    last_cmd,         \* the latest button press and the run-state it met
    controller_wrote  \* whether the page has assigned its bot's is_running

botvars == <<pc, is_running, check_interval, period, std_dev, signals_history,
             history_bars, notifications, last_check, csv_file, wall, tick_at,
             handed>>
dashvars == <<bot_running, session_history, session_bars, last_update, app_bot,
              ui, last_result, last_cmd, controller_wrote>>
vars == <<market, clock, enabled, botvars, dashvars>>

Init ==
    /\ market = <<>>
    /\ clock = 0
    /\ enabled \in ConfigFiles
    /\ pc = "idle"
    /\ is_running = FALSE
    /\ check_interval = DefaultCheckInterval
    /\ period \in Periods
    /\ std_dev \in StdDevs
    /\ signals_history = <<>>
    /\ history_bars = <<>>
    /\ notifications = <<>>
    /\ last_check = None
    /\ csv_file = <<>>
    /\ wall = 0
    /\ tick_at = NoTick
    /\ handed = None
    /\ bot_running = FALSE
    /\ session_history = <<>>
    /\ session_bars = <<>>
    /\ last_update = None
    /\ app_bot = None
    /\ ui = [period |-> period, std_dev |-> std_dev]
    /\ last_result = None
    /\ last_cmd = None
    /\ controller_wrote = FALSE

\* the dashboard's session starts with the default notification file
InitDash == Init /\ enabled = DefaultConfig

\* the provider publishes the next daily bar
NewBar ==
    /\ Len(market) < MaxBars
    /\ clock < MaxClock
    /\ \E c \in Closes : market' = Append(market, c)
    /\ UNCHANGED <<clock, enabled, botvars, dashvars>>

(* ------------------------- the bot process ----------------------------- *)
\* the effect of one run_single_check on the bot's state
DoCheck(outcome, faults, after) ==
    LET fetched == fetch_market_data(outcome, market)
        r == run_single_check(fetched, period, std_dev, signals_history,
                              clock + 1, enabled, faults)
        bar == Len(market)
    IN /\ clock < MaxClock
       /\ clock' = clock + 1
       /\ pc' = IF r.dispatches # <<>> /\ r.dispatches[1].blocked THEN "blocked" ELSE after
       /\ signals_history' = r.signals_history
       /\ history_bars' = IF r.signal = None THEN history_bars
                          ELSE Append(history_bars, bar)
       /\ notifications' = IF r.dispatches = <<>> THEN notifications
                           ELSE Append(notifications, [bar |-> bar, call |-> r.dispatches[1]])
       /\ last_check' = [bar |-> bar,
                         index |-> IF fetched = None THEN <<>> ELSE fetched.Index,
                         result |-> r]

\* the channel faults that can show in a check: none when nothing is
\* dispatched, otherwise no fault or the fault of one channel
FaultsFor(outcome) ==
    LET r == run_single_check(fetch_market_data(outcome, market), period, std_dev,
                              signals_history, clock + 1, enabled, {})
    IN IF r.signal = None THEN {{}}
       ELSE {{}} \cup {{ch} : ch \in enabled}
               \cup (IF "email" \in enabled THEN {{"email_hang"}} ELSE {})

\* main(), choice 1: start_monitoring up to the first loop test
StartMonitoring ==
    /\ pc = "idle"
    /\ is_running' = TRUE
    /\ pc' = "check"
    /\ UNCHANGED <<market, clock, enabled, check_interval, period, std_dev,
                   signals_history, history_bars, notifications, last_check, csv_file,
                   wall, tick_at, handed, dashvars>>

\* main(), choice 2: one run_single_check, then the process ends
SingleCheck ==
    /\ pc = "idle"
    /\ \E outcome \in FetchOutcomes :
          \E faults \in FaultsFor(outcome) : DoCheck(outcome, faults, "done")
    /\ UNCHANGED <<market, enabled, is_running, check_interval, period, std_dev,
                   csv_file, wall, tick_at, handed, dashvars>>

\* loop body, first statement: run_single_check
LoopCheckBody ==
    /\ pc = "check"
    /\ is_running
    /\ \E outcome \in FetchOutcomes :
          \E faults \in FaultsFor(outcome) : DoCheck(outcome, faults, "sleep")
    /\ UNCHANGED <<market, enabled, is_running, check_interval, period, std_dev,
                   csv_file, handed, dashvars>>
\* ... with the time it takes left out
LoopCheck == LoopCheckBody /\ UNCHANGED <<wall, tick_at>>
\* ... beginning at wall and taking some time
TimedLoopCheck ==
    /\ LoopCheckBody
    /\ tick_at' = wall
    /\ \E d \in Latencies : wall' = wall + d

\* loop body, second statement: time.sleep(check_interval) and the loop test;
\* a negative interval makes time.sleep raise ValueError, which ends the loop
LoopSleepBody ==
    /\ pc = "sleep"
    /\ IF check_interval < 0
       THEN is_running' = FALSE /\ pc' = "done"
       ELSE is_running' = is_running /\ pc' = (IF is_running THEN "check" ELSE "done")
    /\ UNCHANGED <<market, clock, enabled, check_interval, period, std_dev,
                   signals_history, history_bars, notifications, last_check, csv_file,
                   tick_at, handed, dashvars>>
\* ... with the time it takes left out
LoopSleep == LoopSleepBody /\ UNCHANGED wall
\* ... taking check_interval seconds
TimedLoopSleep ==
    /\ LoopSleepBody
    /\ wall' = IF check_interval < 0 THEN wall ELSE wall + check_interval

\* Ctrl+C while the loop is between checks, asleep or inside a blocked call
KeyboardInterrupt ==
    /\ pc \in {"check", "sleep", "blocked"}
    /\ is_running' = FALSE
    /\ pc' = "done"
    /\ UNCHANGED <<market, clock, enabled, check_interval, period, std_dev,
                   signals_history, history_bars, notifications, last_check, csv_file,
                   wall, tick_at, handed, dashvars>>

\* save_signals_to_csv called on the bot once the caller has control again
SaveSignalsToCsv ==
    LET saved == save_signals_to_csv(signals_history)
    IN /\ pc = "done"
       /\ csv_file' = saved.file
       /\ signals_history' = saved.signals_history
       /\ UNCHANGED <<market, clock, enabled, pc, is_running, check_interval, period,
                      std_dev, history_bars, notifications, last_check, wall, tick_at,
                      handed, dashvars>>

\* get_signals_history: the list object of the strategy itself, no copy
get_signals_history == [alias |-> "signals_history"]

\* some caller asks the bot for its signals
GetSignalsHistory ==
    /\ handed' = get_signals_history
    /\ handed' # handed
    /\ UNCHANGED <<market, clock, enabled, pc, is_running, check_interval, period,
                   std_dev, signals_history, history_bars, notifications, last_check,
                   csv_file, wall, tick_at, dashvars>>

\* the caller empties the list it was given (list.clear()); the list being
\* the strategy's own, the strategy's history is emptied
ObserverClears ==
    /\ handed # None
    /\ handed.alias = "signals_history"
    /\ signals_history # <<>>
    /\ signals_history' = <<>>
    /\ history_bars' = <<>>
    /\ UNCHANGED <<market, clock, enabled, pc, is_running, check_interval, period,
                   std_dev, notifications, last_check, csv_file, wall, tick_at, handed,
                   dashvars>>

(* --------------------------- the dashboard ----------------------------- *)
\* One execution of the page script: a fresh StreamlitTradingInterface
\* (self.bot = None), the sidebar with the pressed button, then the main
\* area.  press is the button pressed ("none" for any other widget change),
\* sliders the slider values of this run.
ScriptRun(press, sliders, outcome) ==
    LET now == clock + 1
        bot0 == None
        started == IF press = "start"
                   THEN Streamlit_start_monitoring("USO", sliders.period, sliders.std_dev,
                                                   DefaultCheckInterval, now)
                   ELSE [bot |-> bot0, bot_running |-> bot_running, last_update |-> last_update]
        stopped == IF press = "stop"
                   THEN Streamlit_stop_monitoring(started.bot, started.bot_running)
                   ELSE [bot |-> started.bot, bot_running |-> started.bot_running]
        fetches == stopped.bot_running \/ press = "preview"
        f == fetch_and_display_data(fetch_market_data(outcome, market),
                                    sliders.period, sliders.std_dev, session_history, now)
    IN /\ clock < MaxClock
       /\ clock' = now
       /\ ui' = sliders
       /\ app_bot' = stopped.bot
       /\ bot_running' = stopped.bot_running
       /\ last_cmd' = [cmd |-> press, running_before |-> bot_running]
       /\ controller_wrote' = (controller_wrote \/ (press = "stop" /\ started.bot # None))
       /\ IF fetches
          THEN /\ session_history' = f.signals_history
               /\ session_bars' = IF Len(f.signals_history) > Len(session_history)
                                  THEN Append(session_bars, Len(market))
                                  ELSE session_bars
               /\ last_result' = f.result
               /\ last_update' = IF stopped.bot_running /\ f.result # None
                                 THEN now ELSE started.last_update
          ELSE /\ UNCHANGED <<session_history, session_bars>>
               /\ last_result' = None
               /\ last_update' = started.last_update
       /\ UNCHANGED <<market, enabled, botvars>>

\* the start button without disabled=bot_running
ClickStart_always_enabled ==
    \E outcome \in FetchOutcomes : ScriptRun("start", ui, outcome)

\* the start button; it is disabled while bot_running, and a press on a
\* disabled button reaches no handler
ClickStart ==
    IF bot_running
    THEN /\ last_cmd' = [cmd |-> "start", running_before |-> TRUE]
         /\ UNCHANGED <<market, clock, enabled, botvars, bot_running, session_history,
                        session_bars, last_update, app_bot, ui, last_result,
                        controller_wrote>>
    ELSE \E outcome \in FetchOutcomes : ScriptRun("start", ui, outcome)

\* the stop button; it is disabled unless bot_running
ClickStop ==
    IF ~bot_running
    THEN /\ last_cmd' = [cmd |-> "stop", running_before |-> FALSE]
         /\ UNCHANGED <<market, clock, enabled, botvars, bot_running, session_history,
                        session_bars, last_update, app_bot, ui, last_result,
                        controller_wrote>>
    ELSE \E outcome \in FetchOutcomes : ScriptRun("stop", ui, outcome)

\* the manual update button of the monitoring view: st.experimental_rerun()
\* restarts the script, which then runs with no button pressed
ClickManualUpdate ==
    /\ bot_running
    /\ \E outcome \in FetchOutcomes : ScriptRun("none", ui, outcome)

\* the fetch button of the preview view
ClickPreview ==
    /\ ~bot_running
    /\ \E outcome \in FetchOutcomes : ScriptRun("preview", ui, outcome)

\* a slider is moved
MoveSlider ==
    \E p \in Periods, k \in StdDevs, outcome \in FetchOutcomes :
        /\ [period |-> p, std_dev |-> k] # ui
        /\ ScriptRun("none", [period |-> p, std_dev |-> k], outcome)

\* the page's start_monitoring called directly by a controller, with any
\* arguments (the sliders only ever pass values of their ranges)
ApiPeriods == {1} \cup Periods
ApiStdDevs == {0} \cup StdDevs
ApiIntervals == {0, DefaultCheckInterval}
ApiStartMonitoring ==
    \E p \in ApiPeriods, k \in ApiStdDevs, ci \in ApiIntervals :
        LET st == Streamlit_start_monitoring("USO", p, k, ci, clock + 1)
        IN /\ clock < MaxClock
           /\ clock' = clock + 1
           /\ app_bot' = st.bot
           /\ bot_running' = st.bot_running
           /\ last_update' = st.last_update
           /\ last_cmd' = [cmd |-> "start", running_before |-> bot_running]
           /\ UNCHANGED <<market, enabled, botvars, session_history, session_bars,
                          ui, last_result, controller_wrote>>

\* the page's stop_monitoring called directly on the instance that started
ApiStopMonitoring ==
    LET st == Streamlit_stop_monitoring(app_bot, bot_running)
    IN /\ app_bot # None
       /\ app_bot' = st.bot
       /\ bot_running' = st.bot_running
       /\ controller_wrote' = TRUE
       /\ last_cmd' = [cmd |-> "stop", running_before |-> bot_running]
       /\ UNCHANGED <<market, clock, enabled, botvars, session_history, session_bars,
                      last_update, ui, last_result>>

Next ==
    \/ NewBar
    \/ StartMonitoring
    \/ SingleCheck
    \/ LoopCheck
    \/ LoopSleep
    \/ KeyboardInterrupt
    \/ SaveSignalsToCsv

NextTimed ==
    \/ NewBar
    \/ StartMonitoring
    \/ TimedLoopCheck
    \/ TimedLoopSleep
    \/ KeyboardInterrupt

NextObserved ==
    \/ NewBar
    \/ StartMonitoring
    \/ LoopCheck
    \/ LoopSleep
    \/ KeyboardInterrupt
    \/ GetSignalsHistory
    \/ ObserverClears

NextDash ==
    \/ NewBar
    \/ ClickStart
    \/ ClickStop
    \/ ClickManualUpdate
    \/ ClickPreview
    \/ MoveSlider

NextRestart ==
    \/ NewBar
    \/ ClickStart
    \/ ClickStop
    \/ ClickManualUpdate
    \/ MoveSlider
    \/ ApiStopMonitoring

NextApi ==
    \/ NextDash
    \/ ApiStartMonitoring
    \/ ApiStopMonitoring

\* the command-line bot with the data provider
Spec == Init /\ [][Next]_vars
\* the bot's monitoring loop with the time its steps take
SpecTimed == Init /\ [][NextTimed]_vars
\* the bot's monitoring loop and a caller of get_signals_history
SpecObserved == Init /\ [][NextObserved]_vars
\* the dashboard with the data provider
SpecDash == InitDash /\ [][NextDash]_vars
\* the dashboard's monitoring view, its stop_monitoring also called directly
SpecRestart == InitDash /\ [][NextRestart]_vars
\* the dashboard, its start_monitoring also called directly
SpecApi == InitDash /\ [][NextApi]_vars

(* ============================ properties ============================== *)
\* a step that ran one run_single_check
CheckStep == clock' = clock + 1 /\ last_check' # None
Count(seq, P(_)) == Cardinality({i \in DOMAIN seq : P(seq[i])})

\* C1: every crossing transition (identified by the bar it was detected on)
\* leads to exactly one notify call and exactly one ledger entry, also when
\* the same window is fetched again in a later cycle.
C1_ExactlyOncePerTransition ==
    \A b \in 0..MaxBars :
        LET n == Count(notifications, LAMBDA x : x.bar = b)
            h == Count(history_bars, LAMBDA x : x = b)
        IN (n > 0 \/ h > 0) => (n = 1 /\ h = 1)

\* C2: the detector is idempotent: a cycle that evaluates the pair the
\* previous cycle of the same strategy already evaluated yields no Signal.
C2_DetectorIdempotent ==
    [][(/\ CheckStep
        /\ last_check # None
        /\ last_check.result.computed
        /\ last_check'.result.computed
        /\ last_check'.bar = last_check.bar)
       => last_check'.result.signal = None]_vars

\* C3: when the indicators of the last two bars are defined, a Signal is
\* returned exactly if previous.close >= previous.lowerBand and
\* current.close < current.lowerBand (so none when both closes are below).
C3_SignalIffCrossing ==
    (last_check # None /\ last_check.result.computed) =>
        LET data == last_check.result.data
            n == Len(data)
        IN (/\ n >= 2
            /\ \A i \in {n - 1, n} : /\ data[i].SMA # NaN
                                     /\ data[i].Upper_Band # NaN
                                     /\ data[i].Lower_Band # NaN)
           => ((last_check.result.signal # None) <=>
                   (/\ data[n - 1].Close >= data[n - 1].Lower_Band
                    /\ data[n].Close < data[n].Lower_Band))
C3_Witness ==
    /\ last_check # None
    /\ last_check.result.signal # None
    /\ Len(last_check.result.data) >= 2

\* the lower band of the previous or of the current bar is undefined
LowerBandUndefined(data) ==
    \/ Len(data) < 2
    \/ data[Len(data)].Lower_Band = NaN
    \/ data[Len(data) - 1].Lower_Band = NaN

\* C4: a cycle whose previous or current lower band is undefined returns no
\* signal, logs no error, dispatches nothing and the loop goes on to sleep.
C4_UndefinedBandNoSignal ==
    [][(/\ CheckStep
        /\ last_check'.result.computed
        /\ LowerBandUndefined(last_check'.result.data))
       => /\ last_check'.result.signal = None
          /\ last_check'.result.logged = {}
          /\ signals_history' = signals_history
          /\ notifications' = notifications
          /\ is_running' = is_running
          /\ (pc = "check" => pc' = "sleep")]_vars
\* the current band is defined and crossed, the previous one is undefined
C4_Witness ==
    /\ last_check # None
    /\ last_check.result.computed
    /\ pc = "sleep"
    /\ LET data == last_check.result.data
       IN /\ Len(data) >= 2
          /\ data[Len(data) - 1].Lower_Band = NaN
          /\ data[Len(data)].Lower_Band # NaN
          /\ data[Len(data)].Close < data[Len(data)].Lower_Band
          /\ last_check.result.signal = None

Outcome(call, ch) ==
    IF \E k \in DOMAIN call.calls : call.calls[k].channel = ch
    THEN (CHOOSE o \in {call.calls[k].outcome : k \in {j \in DOMAIN call.calls :
                                                    call.calls[j].channel = ch}} : TRUE)
    ELSE "not_called"

\* C5: in every dispatch each enabled channel is attempted whatever was
\* raised in the others, and no exception leaves notify.  (A call that
\* raises nothing and never returns is the subject of C19.)
C5_ChannelIsolation ==
    \A i \in DOMAIN notifications :
        LET call == notifications[i].call
        IN /\ ~call.raised
           /\ ~call.blocked => \A ch \in enabled : Outcome(call, ch) \in {"sent", "failed"}
           /\ (last_check # None => "check_failed" \notin last_check.result.logged)
\* the email relay failed while console and sound went out
C5_Witness ==
    \E i \in DOMAIN notifications :
        LET call == notifications[i].call
        IN /\ Outcome(call, "email") = "failed"
           /\ Outcome(call, "console") = "sent"
           /\ Outcome(call, "sound") = "sent"

\* C6: the dispatch returns the per-channel outcome report to its caller.
C6_DispatchReturnsReport ==
    \A i \in DOMAIN notifications :
        LET call == notifications[i].call
        IN call.returned = [ch \in Channels |-> Outcome(call, ch)]

\* C7: after a stop command issued while the monitor is Running the
\* controller's run-state is Stopped.
C7_StopTakesEffect ==
    (last_cmd # None /\ last_cmd.cmd = "stop" /\ last_cmd.running_before)
        => ~bot_running

\* C8: a cycle whose fetch fails (error, malformed payload, empty result)
\* logs it, computes no indicators, emits and dispatches nothing, leaves
\* is_running alone and goes on to sleep; from that sleep the loop returns
\* to the next check unless interrupted.
C8_FetchFailureRetried ==
    [][/\ (CheckStep /\ (market = <<>> \/ ~last_check'.result.computed))
          => /\ ~last_check'.result.computed
             /\ "fetch_failed" \in last_check'.result.logged
             /\ last_check'.result.data = <<>>
             /\ last_check'.result.signal = None
             /\ signals_history' = signals_history
             /\ notifications' = notifications
             /\ is_running' = is_running
             /\ (pc = "check" => pc' = "sleep")
       /\ (/\ pc = "sleep" /\ last_check # None /\ ~last_check.result.computed
           /\ is_running')
          => pc' \in {"sleep", "check"}]_vars
C8_Witness ==
    /\ last_check # None
    /\ ~last_check.result.computed
    /\ pc = "check"
    /\ is_running
    /\ clock >= 1

InvalidConfig(b) == b.period < 2 \/ b.std_dev <= 0 \/ b.check_interval <= 0

\* C9: a start with an invalid configuration is rejected: the run-state
\* does not become Running.
C9_InvalidConfigRejected ==
    (app_bot # None /\ InvalidConfig(app_bot)) => ~bot_running

C11_ControllerNeverWritesFlag ==
    ~controller_wrote

\* C12: every Signal the detector yields in a cycle is both passed to the
\* dispatcher and appended to the ledger, in the bot's loop and in the
\* dashboard's cycle alike: the recorded signals are the dispatched ones.
C12_SignalDispatchedAndRecorded ==
    LET recorded == {signals_history[i] : i \in DOMAIN signals_history}
                        \cup {session_history[i] : i \in DOMAIN session_history}
        dispatched == {notifications[i].call.signal : i \in DOMAIN notifications}
    IN recorded = dispatched

\* C13: after any sequence of successful fetches, overlapping windows
\* included, the frame a cycle works on has strictly increasing timestamps
\* without duplicates, and against the frame of the cycle before it holds
\* no new bar that is not newer than that frame's last one.
C13_SeriesStrictlyIncreasing ==
    [][CheckStep =>
        LET new == last_check'.index
            old == IF last_check = None THEN <<>> ELSE last_check.index
        IN /\ \A i, j \in DOMAIN new : i < j => new[i] < new[j]
           /\ (old # <<>> /\ new # <<>>) =>
                 \A i \in DOMAIN new :
                     (\A j \in DOMAIN old : old[j] # new[i]) => new[i] > old[Len(old)]]_vars
C13_Witness ==
    /\ clock = 2
    /\ last_check # None
    /\ last_check.index = <<1, 2, 3>>
    /\ signals_history # <<>>
    /\ signals_history[1].timestamp = 1

\* C14: every emitted Signal has type "BUY", takes price, upper, middle and
\* lower band from the current (last) bar, never the previous one, and its
\* message carries the price and the lower band to two decimals.
C14_SignalFromCurrentBar ==
    (last_check # None /\ last_check.result.signal # None) =>
        LET sig == last_check.result.signal
            data == last_check.result.data
            current == data[Len(data)]
            TwoDecimals(text, x) == 10 * text - 5 <= x /\ x <= 10 * text + 5
        IN /\ sig.signal_type = "BUY"
           /\ sig.price = current.Close
           /\ sig.upper_band = current.Upper_Band
           /\ sig.middle_band = current.SMA
           /\ sig.lower_band = current.Lower_Band
           /\ TwoDecimals(sig.message[2], current.Close)
           /\ TwoDecimals(sig.message[3], current.Lower_Band)
C14_Witness ==
    /\ last_check # None
    /\ last_check.result.signal # None
    /\ last_check.result.signal.price = 1006
    /\ last_check.result.signal.message[2] = 101
    /\ last_check.result.data[Len(last_check.result.data) - 1].Close # 1006

\* the records read back from an exported file: the header names the fields
ParseCsv(file) ==
    [i \in 1..(Len(file) - 1) |->
        [c \in {file[1][k] : k \in DOMAIN file[1]} |->
            LET k == CHOOSE k \in DOMAIN file[1] : file[1][k] = c
            IN file[i + 1][k].text]]

C16_WarmUpUndefined ==
    (last_check # None /\ last_check.result.computed) =>
        LET data == last_check.result.data
        IN \A i \in DOMAIN data :
              IF i - 1 < period - 1
              THEN /\ isna(data[i].SMA) /\ isna(data[i].STD)
                   /\ isna(data[i].Upper_Band) /\ isna(data[i].Lower_Band)
                   /\ isna(data[i].BB_Width) /\ isna(data[i].Percent_B)
              ELSE /\ IsFinite(data[i].SMA) /\ IsFinite(data[i].STD)
                   /\ IsFinite(data[i].Upper_Band) /\ IsFinite(data[i].Lower_Band)
C16_Witness ==
    /\ last_check # None
    /\ last_check.result.computed
    /\ Len(last_check.result.data) = 3
    /\ isna(last_check.result.data[period - 1].SMA)
    /\ ~isna(last_check.result.data[period].SMA)

\* C17: on every row with defined indicators upper = sma + k*std,
\* lower = sma - k*std and bandWidth = upper - lower = 2*k*std, up to one
\* unit of rounding per product; hence lower <= sma <= upper for k > 0.
\* (std_dev is k in tenths, so the products are compared at ten times scale.)
C17_BandsAroundMean ==
    (last_check # None /\ last_check.result.computed) =>
        LET data == last_check.result.data
            Within(a, b, tol) == a - b <= tol /\ b - a <= tol
        IN \A i \in DOMAIN data :
              ~isna(data[i].SMA) =>
                 /\ Within(10 * data[i].Upper_Band, 10 * data[i].SMA + std_dev * data[i].STD, 10)
                 /\ Within(10 * data[i].Lower_Band, 10 * data[i].SMA - std_dev * data[i].STD, 10)
                 /\ data[i].BB_Width = data[i].Upper_Band - data[i].Lower_Band
                 /\ Within(10 * data[i].BB_Width, 2 * std_dev * data[i].STD, 20)
                 /\ std_dev > 0 => /\ data[i].Lower_Band <= data[i].SMA
                                   /\ data[i].SMA <= data[i].Upper_Band
C17_Witness ==
    /\ last_check # None
    /\ last_check.result.computed
    /\ std_dev = 5
    /\ \E i \in DOMAIN last_check.result.data :
          /\ ~isna(last_check.result.data[i].SMA)
          /\ last_check.result.data[i].STD > 0
          /\ last_check.result.data[i].Lower_Band < last_check.result.data[i].SMA

\* C18: while a monitoring run is Running, the period and the multiplier
\* its cycles compute with never change: two successive cycles of one run
\* use the same values.
C18_ParametersFixedWhileRunning ==
    [][(bot_running /\ bot_running' /\ clock' # clock) => ui' = ui]_vars

\* C19: a channel call that never returns does not stall the monitor for
\* ever: while the loop is inside such a call it still has a step of its
\* own to take (the call's deadline running out), so that a loop which takes
\* the steps it can take reaches its next tick.
C19_HungCallDoesNotStall ==
    (pc = "blocked") => ENABLED (LoopCheck \/ LoopSleep)

\* C20: in one dispatch each enabled channel is attempted exactly once and
\* no disabled channel is attempted; a channel that failed is not tried
\* again in the same dispatch, and the dispatch of the next signal attempts
\* every enabled channel afresh.
C20_OneAttemptPerChannel ==
    \A i \in DOMAIN notifications :
        LET call == notifications[i].call
            Attempts(ch) == {k \in DOMAIN call.calls :
                               /\ call.calls[k].channel = ch
                               /\ call.calls[k].outcome # "skipped"}
        IN \A ch \in Channels :
              /\ Cardinality(Attempts(ch)) <= 1
              /\ ch \notin enabled => Attempts(ch) = {}
              /\ (ch \in enabled /\ ~call.blocked /\ ~call.raised)
                    => Cardinality(Attempts(ch)) = 1
\* the email relay failed for one signal and was tried again for the next
C20_Witness ==
    /\ Len(notifications) = 2
    /\ Outcome(notifications[1].call, "email") = "failed"
    /\ Outcome(notifications[2].call, "email") \in {"sent", "failed"}
    /\ Len(notifications[1].call.calls) = 3

\* C21: a start that follows a stop begins with a fresh bot (empty
\* signals_history) and its cycle detects on the window fetched now with the
\* parameters given now: nothing of the run before it enters the detection.
C21_FreshStateAfterRestart ==
    [][(~bot_running /\ bot_running' /\ last_cmd' # None /\ last_cmd'.cmd = "start") =>
         /\ app_bot' # None
         /\ app_bot'.signals_history = <<>>
         /\ ~app_bot'.is_running
         /\ (last_result' # None /\ last_result'.status.timestamp = clock') =>
               LET data == calculate_bollinger_bands(market, ui'.period, ui'.std_dev)
               IN /\ last_result'.data = data
                  /\ last_result'.signal = detect_buy_signal(data, "USO", clock')]_vars
\* a run that recorded a signal was stopped, and the run started after it
\* detected on the same window again
C21_Witness ==
    /\ controller_wrote
    /\ bot_running
    /\ last_cmd # None /\ last_cmd.cmd = "start" /\ ~last_cmd.running_before
    /\ last_result # None /\ last_result.signal # None
    /\ last_result.signal.timestamp = 2
    /\ Len(session_history) = 2
    /\ session_history[1].timestamp = 1

\* C22: ticks are scheduled absolutely: each run_single_check of the loop
\* begins exactly check_interval after the one before it began, however
\* long that one took.
C22_AbsoluteTicks ==
    [][(pc = "check" /\ pc' # "check" /\ tick_at # NoTick)
         => tick_at' = tick_at + check_interval]_vars

\* C23: what a reader of the ledger is handed is a snapshot: nothing the
\* reader does with it alters the ledger, which changes only by the appends
\* of the loop's cycles, so that every read sees a prefix of what the loop
\* appended.
C23_LedgerReadIsSnapshot ==
    [][signals_history' # signals_history
         => /\ clock' = clock + 1
            /\ Len(signals_history') = Len(signals_history) + 1
            /\ SubSeq(signals_history', 1, Len(signals_history)) = signals_history]_vars

\* C24: on every row with defined bands Percent_B is (close - lower band)
\* over the band width (in hundredths), and where the band width is 0 (all
\* closes of the window equal) it is undefined: never an infinity or any
\* other number out of a division by zero.
C24_PercentBUndefinedOnZeroWidth ==
    (last_check # None /\ last_check.result.computed) =>
        LET data == last_check.result.data
        IN \A i \in DOMAIN data :
              ~isna(data[i].SMA) =>
                 /\ data[i].Percent_B \notin {PosInf, NegInf}
                 /\ IF data[i].BB_Width = 0
                    THEN isna(data[i].Percent_B)
                    ELSE data[i].Percent_B =
                           ((data[i].Close - data[i].Lower_Band) * 100) \div data[i].BB_Width
C24_Witness ==
    /\ last_check # None
    /\ last_check.result.computed
    /\ \E i \in DOMAIN last_check.result.data :
          LET row == last_check.result.data[i]
          IN /\ ~isna(row.SMA)
             /\ row.BB_Width = 0
             /\ row.Close = row.Lower_Band
             /\ isna(row.Percent_B)

\* C25: whenever the page reports the monitor as running, a monitoring loop
\* of its bot is active (the page holds a bot whose is_running is true), and
\* whenever it reports stopped no loop is active.
C25_RunningMeansLoopActive ==
    /\ bot_running => (app_bot # None /\ app_bot.is_running)
    /\ ~bot_running => (app_bot = None \/ ~app_bot.is_running)

\* C26: detect_buy_signal changes signals_history only by appending: a
\* cycle that returns a signal leaves the history longer by exactly that
\* signal, a cycle that returns none leaves it as it was, and earlier
\* entries stay in place.
C26_HistoryAppendOnly ==
    [][CheckStep =>
         LET sig == last_check'.result.signal
         IN IF sig = None
            THEN signals_history' = signals_history
            ELSE /\ Len(signals_history') = Len(signals_history) + 1
                 /\ signals_history'[Len(signals_history')] = sig
                 /\ \A i \in DOMAIN signals_history :
                       signals_history'[i] = signals_history[i]]_vars
C26_Witness ==
    /\ last_check # None
    /\ last_check.result.signal # None
    /\ Len(signals_history) = 2
    /\ signals_history[2] = last_check.result.signal
    /\ signals_history[1] # signals_history[2]

\* C27: get_current_status gives a position label only when Percent_B is
\* defined, "below the lower band" only for a close below the lower band
\* and "above the upper band" only for a close above the upper band.
C27_PositionAgreesWithBands ==
    (last_check # None /\ last_check.result.status # None) =>
        LET status == last_check.result.status
        IN /\ isna(status.percent_b) => status.position = "none"
           /\ status.position = "below_lower"
                 => FLt(status.current_price, status.lower_band)
           /\ status.position = "above_upper"
                 => FGt(status.current_price, status.upper_band)
====
